---- MODULE Spec2Model ----
(***************************************************************************)
(* A model of gossiper's game server (internal/server/game_server.go) and  *)
(* of the HTTP handlers that drive it.                                     *)
(*                                                                         *)
(* The module holds specifications over disjoint groups of variables:      *)
(*   CallSpec   single calls of MergeState, UpdatePlayerScore and           *)
(*              GetPlayerState: the map and the arguments are drawn in      *)
(*              Init and by the actions, which apply the calls;            *)
(*   StoreSpec  one node's PlayerMap under any sequence of                  *)
(*              UpdatePlayerScore / MergeState calls, with the history of   *)
(*              what was applied;                                          *)
(*   Spec       the cluster: every node's gossip loop, the HTTP posts in    *)
(*              flight and the handlers, each critical section one step;    *)
(*   LockSpec   one node at the grain of the RWMutex: goroutines taking     *)
(*              and releasing gs.mu and touching the map one key at a time; *)
(*   TransportSpec  one request served by HandleUpdate or HandleGossip,     *)
(*              from the query string or the body to the response.         *)
(* TickingSpec, FairSpec and ShutdownSpec are the cluster under fairness.  *)
(***************************************************************************)
EXTENDS Integers, FiniteSets, Sequences, TLC

(***************************************************************************)
(* Bounds of the model.                                                    *)
(***************************************************************************)
MaxTime == 2
MaxScore == 2
MaxWrites == 2
MaxCalls == 3
NumGoroutines == 2
MaxStrLen == 2

PlayerIds == {"alice", "bob"}
Scores == 1..MaxScore
Stamps == 1..MaxTime

(***************************************************************************)
(* PlayerState and map[string]PlayerState.                                 *)
(***************************************************************************)
PlayerState == [Score : Scores, Timestamp : Stamps]

EmptyMap == [id \in {} |-> [Score |-> 0, Timestamp |-> 0]]

PlayerMaps == UNION {[ks -> PlayerState] : ks \in SUBSET PlayerIds}

\* m[k] = v of a Go map: the key is added or its value overwritten.
MapPutAll(m, k, v) == [x \in (DOMAIN m) \cup {k} |-> v]

MapPut(m, k, v) == [x \in (DOMAIN m) \cup {k} |-> IF x = k THEN v ELSE m[x]]

(***************************************************************************)
(* MergeState: the body of the range loop for one key of incomingMap, and  *)
(* the loop. Go ranges over a map in an unspecified order; an iteration    *)
(* reads and writes the key it is at only.                                 *)
(***************************************************************************)
MergeEntryAtOrAfter(pm, playerId, incomingState) ==
    IF playerId \notin DOMAIN pm
          \/ incomingState.Timestamp >= pm[playerId].Timestamp
    THEN MapPut(pm, playerId, [Score     |-> incomingState.Score,
                               Timestamp |-> incomingState.Timestamp])
    ELSE pm

MergeEntryAccumulate(pm, playerId, incomingState) ==
    IF playerId \notin DOMAIN pm
    THEN MapPut(pm, playerId, [Score     |-> incomingState.Score,
                               Timestamp |-> incomingState.Timestamp])
    ELSE IF incomingState.Timestamp >= pm[playerId].Timestamp
    THEN MapPut(pm, playerId,
                [Score     |-> pm[playerId].Score + incomingState.Score,
                 Timestamp |-> incomingState.Timestamp])
    ELSE pm

MergeEntryAlways(pm, playerId, incomingState) ==
    MapPut(pm, playerId, [Score     |-> incomingState.Score,
                          Timestamp |-> incomingState.Timestamp])

MergeEntryIfDifferent(pm, playerId, incomingState) ==
    IF playerId \notin DOMAIN pm
          \/ incomingState.Timestamp # pm[playerId].Timestamp
    THEN MapPut(pm, playerId, [Score     |-> incomingState.Score,
                               Timestamp |-> incomingState.Timestamp])
    ELSE pm

MergeEntryKnownOnly(pm, playerId, incomingState) ==
    IF playerId \in DOMAIN pm
          /\ incomingState.Timestamp > pm[playerId].Timestamp
    THEN MapPut(pm, playerId, incomingState)
    ELSE pm

MergeEntry(pm, playerId, incomingState) ==
    IF playerId \notin DOMAIN pm
          \/ incomingState.Timestamp > pm[playerId].Timestamp
    THEN MapPut(pm, playerId, [Score     |-> incomingState.Score,
                               Timestamp |-> incomingState.Timestamp])
    ELSE pm

RECURSIVE MergeLoop(_, _, _)
MergeLoop(pm, incomingMap, keys) ==
    IF keys = {}
    THEN pm
    ELSE LET playerId == CHOOSE k \in keys : TRUE
         IN  MergeLoop(MergeEntry(pm, playerId, incomingMap[playerId]),
                       incomingMap, keys \ {playerId})

MergeStateReplaces(pm, incomingMap) == incomingMap

MergeState(pm, incomingMap) == MergeLoop(pm, incomingMap, DOMAIN incomingMap)

(***************************************************************************)
(* UpdatePlayerScore: the assignment under the lock; now is the reading of *)
(* time.Now().UnixNano().                                                  *)
(***************************************************************************)
SetEntryIfNewer(pm, playerId, score, now) ==
    IF playerId \notin DOMAIN pm \/ now > pm[playerId].Timestamp
    THEN MapPut(pm, playerId, [Score |-> score, Timestamp |-> now])
    ELSE pm

SetEntry(pm, playerId, score, now) ==
    MapPut(pm, playerId, [Score |-> score, Timestamp |-> now])

(***************************************************************************)
(* GetPlayerState: a fresh map filled by a range loop over PlayerMap.      *)
(***************************************************************************)
RECURSIVE CopyLoop(_, _, _)
CopyLoop(result, pm, keys) ==
    IF keys = {}
    THEN result
    ELSE LET playerId == CHOOSE k \in keys : TRUE
         IN  CopyLoop(MapPut(result, playerId, pm[playerId]), pm,
                      keys \ {playerId})

GetPlayerState(pm) == CopyLoop(EmptyMap, pm, DOMAIN pm)

(***************************************************************************)
(* The gossip payload.                                                     *)
(***************************************************************************)
\* json.Marshal(gs.PlayerMap): one member per key, holding the two exported
\* fields of PlayerState under their field names (the struct tags of
\* PlayerState are malformed, so encoding/json uses the field names).
MarshalNewest(pm) ==
    {[key |-> id, Score |-> pm[id].Score, Timestamp |-> pm[id].Timestamp] :
        id \in {k \in DOMAIN pm :
                   \A o \in DOMAIN pm : pm[k].Timestamp >= pm[o].Timestamp}}

Marshal(pm) ==
    {[key |-> id, Score |-> pm[id].Score, Timestamp |-> pm[id].Timestamp] :
        id \in DOMAIN pm}

\* json.NewDecoder(r.Body).Decode(&incomingMap) in HandleGossip.
Decode(body) ==
    [id \in {m.key : m \in body} |->
        LET m == CHOOSE m \in body : m.key = id
        IN  [Score |-> m.Score, Timestamp |-> m.Timestamp]]

\* The payload of a gossipWithPeer call that has not read the map.
NoBody == {}

(***************************************************************************)
(* The variables.                                                          *)
(***************************************************************************)
VARIABLES
    \* CallSpec
    mpc,        \* "start", "once", "twice", "orders", "set", "get"
    mLocal,     \* the PlayerMap before the calls
    mFirst,     \* the payload merged first
    mOnce,      \* PlayerMap after MergeState(mFirst)
    mTwice,     \* PlayerMap after MergeState(mFirst) twice
    mAB,        \* PlayerMap after MergeState(mFirst) then MergeState(p)
    mBA,        \* PlayerMap after MergeState(p) then MergeState(mFirst)
    mSet,       \* the arguments and clock reading of the UpdatePlayerScore call
    mAfterSet,  \* PlayerMap after UpdatePlayerScore
    mRet,       \* what GetPlayerState returned after it
    \* StoreSpec
    store,       \* gs.PlayerMap of the node
    maxSeen,     \* per id: the greatest timestamp ever applied (0: none)
    pairedSeen,  \* per id: the scores applied with timestamp maxSeen
    maxSince,    \* per id: the greatest timestamp applied since (and by) the last UpdatePlayerScore
    firstSince,  \* per id: the score of the first entry applied with timestamp maxSince since then
    \* Spec
    Peers,       \* per node: gs.Peers
    PlayerMap,   \* per node: gs.PlayerMap
    loop,        \* per node: where gossipLoop is, the peer it picked, the payload it read
    attempts,    \* per node: the http.Post calls made for the tick last received
    writes,      \* the client requests (/update, /state) still to come
    lastState,   \* the body of the last /state response
    \* LockSpec
    maps,        \* the maps on the heap: gs.PlayerMap and each GetPlayerState result
    mu,          \* gs.mu: the goroutine holding the write lock, those holding read locks
    th,          \* per goroutine: where it is in its call, and the call's locals
    versions,    \* the values gs.PlayerMap had at start, after each UpdatePlayerScore assignment and after each MergeState call
    calls,       \* the calls still to come
    \* TransportSpec
    tpc,         \* "start", "served"
    tStore,      \* gs.PlayerMap when the request arrives
    tReq,        \* the request: path, query values, clock reading, body
    tResp        \* the response status, whether the core was called, gs.PlayerMap afterwards

callVars == <<mpc, mLocal, mFirst, mOnce, mTwice, mAB, mBA, mSet, mAfterSet, mRet>>
storeVars == <<store, maxSeen, pairedSeen, maxSince, firstSince>>
clusterVars == <<Peers, PlayerMap, loop, attempts, writes, lastState>>
lockVars == <<maps, mu, th, versions, calls>>
transportVars == <<tpc, tStore, tReq, tResp>>
vars == <<callVars, storeVars, clusterVars, lockVars, transportVars>>

notCall == <<storeVars, clusterVars, lockVars, transportVars>>
notStore == <<callVars, clusterVars, lockVars, transportVars>>
notCluster == <<callVars, storeVars, lockVars, transportVars>>
notLock == <<callVars, storeVars, clusterVars, transportVars>>
notTransport == <<callVars, storeVars, clusterVars, lockVars>>

(***************************************************************************)
(* CallSpec.                                                               *)
(***************************************************************************)
NoSet == [id |-> "", score |-> 0, now |-> 0]

CallIdle ==
    /\ mpc = "start"
    /\ mLocal = EmptyMap
    /\ mFirst = EmptyMap
    /\ mOnce = EmptyMap
    /\ mTwice = EmptyMap
    /\ mAB = EmptyMap
    /\ mBA = EmptyMap
    /\ mSet = NoSet
    /\ mAfterSet = EmptyMap
    /\ mRet = EmptyMap

CallInit ==
    /\ mpc = "start"
    /\ mLocal \in PlayerMaps
    /\ mFirst \in PlayerMaps
    /\ mOnce = EmptyMap
    /\ mTwice = EmptyMap
    /\ mAB = EmptyMap
    /\ mBA = EmptyMap
    /\ mSet = NoSet
    /\ mAfterSet = EmptyMap
    /\ mRet = EmptyMap

MergeOnce ==
    /\ mpc = "start"
    /\ mOnce' = MergeState(mLocal, mFirst)
    /\ mpc' = "once"
    /\ UNCHANGED <<mLocal, mFirst, mTwice, mAB, mBA, mSet, mAfterSet, mRet>>
    /\ UNCHANGED notCall

MergeTwice ==
    /\ mpc = "once"
    /\ mTwice' = MergeState(mOnce, mFirst)
    /\ mpc' = "twice"
    /\ UNCHANGED <<mLocal, mFirst, mOnce, mAB, mBA, mSet, mAfterSet, mRet>>
    /\ UNCHANGED notCall

MergeOrders ==
    /\ mpc = "once"
    /\ \E p \in PlayerMaps :
          /\ mAB' = MergeState(mOnce, p)
          /\ mBA' = MergeState(MergeState(mLocal, p), mFirst)
    /\ mpc' = "orders"
    /\ UNCHANGED <<mLocal, mFirst, mOnce, mTwice, mSet, mAfterSet, mRet>>
    /\ UNCHANGED notCall

\* UpdatePlayerScore(playerId, score) with the clock reading now.
UpdateOnce ==
    /\ mpc = "start"
    /\ \E playerId \in PlayerIds, score \in Scores, now \in Stamps :
          /\ mSet' = [id |-> playerId, score |-> score, now |-> now]
          /\ mAfterSet' = SetEntry(mLocal, playerId, score, now)
    /\ mpc' = "set"
    /\ UNCHANGED <<mLocal, mFirst, mOnce, mTwice, mAB, mBA, mRet>>
    /\ UNCHANGED notCall

\* GetPlayerState right after it.
GetAfterUpdate ==
    /\ mpc = "set"
    /\ mRet' = GetPlayerState(mAfterSet)
    /\ mpc' = "get"
    /\ UNCHANGED <<mLocal, mFirst, mOnce, mTwice, mAB, mBA, mSet, mAfterSet>>
    /\ UNCHANGED notCall

CallNext ==
    MergeOnce \/ MergeTwice \/ MergeOrders \/ UpdateOnce \/ GetAfterUpdate

(***************************************************************************)
(* StoreSpec: one node's PlayerMap under any sequence of UpdatePlayerScore *)
(* and MergeState calls. The calls run one at a time here (gs.mu           *)
(* serialises them; LockSpec models the lock). A call's inputs are any     *)
(* player id, score, clock reading and decoded payload.                    *)
(***************************************************************************)
Max(a, b) == IF a >= b THEN a ELSE b

\* The history after one entry (score, ts) was applied to id: the greatest
\* timestamp so far, and the scores that came with it.
SeenMax(mx, id, ts) == [mx EXCEPT ![id] = Max(mx[id], ts)]

SeenPaired(mx, pr, id, score, ts) ==
    [pr EXCEPT ![id] = IF ts > mx[id] THEN {score}
                       ELSE IF ts = mx[id] THEN pr[id] \cup {score}
                       ELSE pr[id]]

SeenFirst(mx, fs, id, score, ts) ==
    [fs EXCEPT ![id] = IF ts > mx[id] THEN score ELSE fs[id]]

\* The history after every entry of a payload was applied (a payload holds
\* one entry per id).
SeenMaxAll(mx, incomingMap) ==
    [id \in PlayerIds |->
        IF id \in DOMAIN incomingMap
        THEN SeenMax(mx, id, incomingMap[id].Timestamp)[id]
        ELSE mx[id]]

SeenPairedAll(mx, pr, incomingMap) ==
    [id \in PlayerIds |->
        IF id \in DOMAIN incomingMap
        THEN SeenPaired(mx, pr, id, incomingMap[id].Score,
                        incomingMap[id].Timestamp)[id]
        ELSE pr[id]]

SeenFirstAll(mx, fs, incomingMap) ==
    [id \in PlayerIds |->
        IF id \in DOMAIN incomingMap
        THEN SeenFirst(mx, fs, id, incomingMap[id].Score,
                       incomingMap[id].Timestamp)[id]
        ELSE fs[id]]

StoreIdle ==
    /\ store = EmptyMap
    /\ maxSeen = [id \in PlayerIds |-> 0]
    /\ pairedSeen = [id \in PlayerIds |-> {}]
    /\ maxSince = [id \in PlayerIds |-> 0]
    /\ firstSince = [id \in PlayerIds |-> 0]

\* NewGameServer: PlayerMap: make(map[string]PlayerState).
StoreInit == StoreIdle

StoreUpdatePlayerScore(playerId, score, now) ==
    /\ store' = SetEntry(store, playerId, score, now)
    /\ maxSeen' = SeenMax(maxSeen, playerId, now)
    /\ pairedSeen' = SeenPaired(maxSeen, pairedSeen, playerId, score, now)
    /\ maxSince' = [maxSince EXCEPT ![playerId] = now]
    /\ firstSince' = [firstSince EXCEPT ![playerId] = score]
    /\ UNCHANGED notStore

StoreMergeState(incomingMap) ==
    /\ store' = MergeState(store, incomingMap)
    /\ maxSeen' = SeenMaxAll(maxSeen, incomingMap)
    /\ pairedSeen' = SeenPairedAll(maxSeen, pairedSeen, incomingMap)
    /\ maxSince' = SeenMaxAll(maxSince, incomingMap)
    /\ firstSince' = SeenFirstAll(maxSince, firstSince, incomingMap)
    /\ UNCHANGED notStore

StoreNext ==
    \/ \E incomingMap \in PlayerMaps : StoreMergeState(incomingMap)
    \/ \E playerId \in PlayerIds, score \in Scores, now \in Stamps :
          StoreUpdatePlayerScore(playerId, score, now)

(***************************************************************************)
(* LockSpec: one node at the grain of gs.mu. NumGoroutines goroutines each *)
(* make calls, MaxCalls in all: UpdatePlayerScore, MergeState,             *)
(* GetPlayerState (the /update, /gossip and /state handlers) and the       *)
(* payload read of gossipWithPeer. A call takes the lock, touches the map  *)
(* one key per step, and releases the lock. The arguments of a call are    *)
(* drawn when its goroutine gets the lock: nothing reads them earlier.     *)
(*                                                                         *)
(* gs.mu is a sync.RWMutex: Lock waits until no goroutine holds the lock   *)
(* in either mode, RLock until no goroutine holds it for writing. A Lock   *)
(* that finds readers inside may announce itself (mu.waiting): from then   *)
(* on new RLocks and other Locks wait until that writer has had the lock.  *)
(* Whether a blocked Lock has announced itself yet when an RLock arrives   *)
(* is the scheduler's choice, so the announcement is a step of its own.    *)
(***************************************************************************)
Goroutines == 1..NumGoroutines

\* The maps on the heap: gs.PlayerMap, and the result map of the
\* GetPlayerState call of each goroutine.
StoreRef == 0
ResultRef(t) == t

NoHolder == 0

CanLockIgnoringWriter(m) == m.readers = {}

CanLockIgnoringReaders(m) == m.writer = NoHolder

CanLock(m) == m.writer = NoHolder /\ m.readers = {}

CanRLockAlways(m) == TRUE

CanRLock(m) == m.writer = NoHolder /\ m.waiting = NoHolder

\* GetPlayerState: return result.
ReturnedStoreItself(t) == StoreRef

Returned(t) == ResultRef(t)

\* A goroutine between calls. during counts the UpdatePlayerScore
\* assignments made by others since the goroutine called GetPlayerState.
Resting == [pc |-> "idle", incoming |-> EmptyMap, keys |-> {},
            payload |-> NoBody, ref |-> StoreRef, during |-> 0]

InGet(t) == th[t].pc \in {"g-lock", "g-loop"}

LockIdle ==
    /\ maps = [r \in {StoreRef} \cup Goroutines |-> EmptyMap]
    /\ mu = [writer |-> NoHolder, readers |-> {}, waiting |-> NoHolder]
    /\ th = [t \in Goroutines |-> Resting]
    /\ versions = {}
    /\ calls = 0

\* A node just built by NewGameServer: gs.PlayerMap is empty.
LockFresh ==
    /\ maps = [r \in {StoreRef} \cup Goroutines |-> EmptyMap]
    /\ versions = {EmptyMap}
    /\ mu = [writer |-> NoHolder, readers |-> {}, waiting |-> NoHolder]
    /\ th = [t \in Goroutines |-> Resting]
    /\ calls = MaxCalls

\* The node has served any requests so far: gs.PlayerMap holds any map.
LockInit ==
    /\ \E pm \in PlayerMaps :
          /\ maps = [r \in {StoreRef} \cup Goroutines |->
                        IF r = StoreRef THEN pm ELSE EmptyMap]
          /\ versions = {pm}
    /\ mu = [writer |-> NoHolder, readers |-> {}, waiting |-> NoHolder]
    /\ th = [t \in Goroutines |-> Resting]
    /\ calls = MaxCalls

\* A handler, or the gossip loop, makes its call and reaches the Lock or
\* RLock at its top.
Call(t, op) ==
    /\ th[t].pc = "idle"
    /\ calls > 0
    /\ calls' = calls - 1
    /\ th' = [th EXCEPT ![t].pc = op]
    /\ UNCHANGED <<maps, mu, versions>>
    /\ UNCHANGED notLock

CallUpdate(t) == Call(t, "u-lock")
CallMerge(t) == Call(t, "m-lock")
CallGet(t) == Call(t, "g-lock")
CallGossip(t) == Call(t, "j-lock")

\* gs.mu.Lock() of UpdatePlayerScore or MergeState finds readers inside: the
\* writer announces itself and waits for them to leave.
LockBehindReaders(t) ==
    /\ th[t].pc \in {"u-lock", "m-lock"}
    /\ mu.writer = NoHolder
    /\ mu.waiting = NoHolder
    /\ mu.readers # {}
    /\ mu' = [mu EXCEPT !.waiting = t]
    /\ UNCHANGED <<maps, th, versions, calls>>
    /\ UNCHANGED notLock

\* UpdatePlayerScore: gs.mu.Lock().
UpdateLock(t) ==
    /\ th[t].pc = "u-lock"
    /\ CanLock(mu)
    /\ mu.waiting \in {NoHolder, t}
    /\ mu' = [mu EXCEPT !.writer = t, !.waiting = NoHolder]
    /\ th' = [th EXCEPT ![t].pc = "u-body"]
    /\ UNCHANGED <<maps, versions, calls>>
    /\ UNCHANGED notLock

\* UpdatePlayerScore: the assignment.
UpdateBody(t) ==
    /\ th[t].pc = "u-body"
    /\ \E playerId \in PlayerIds, score \in Scores, now \in Stamps :
          maps' = [maps EXCEPT ![StoreRef] =
                      SetEntry(maps[StoreRef], playerId, score, now)]
    /\ versions' = versions \cup {maps'[StoreRef]}
    /\ th' = [o \in Goroutines |->
                IF o = t THEN [th[o] EXCEPT !.pc = "u-unlock"]
                ELSE IF InGet(o) THEN [th[o] EXCEPT !.during = th[o].during + 1]
                ELSE th[o]]
    /\ UNCHANGED <<mu, calls>>
    /\ UNCHANGED notLock

\* UpdatePlayerScore returns with gs.mu still held.
UpdateReturnsLocked(t) ==
    /\ th[t].pc = "u-unlock"
    /\ th' = [th EXCEPT ![t] = Resting]
    /\ UNCHANGED <<maps, mu, versions, calls>>
    /\ UNCHANGED notLock

\* UpdatePlayerScore returns: the deferred gs.mu.Unlock().
UpdateUnlock(t) ==
    /\ th[t].pc = "u-unlock"
    /\ mu' = [mu EXCEPT !.writer = NoHolder]
    /\ th' = [th EXCEPT ![t] = Resting]
    /\ UNCHANGED <<maps, versions, calls>>
    /\ UNCHANGED notLock

\* MergeState(incomingMap): gs.mu.Lock(); the range loop starts.
MergeLock(t) ==
    /\ th[t].pc = "m-lock"
    /\ CanLock(mu)
    /\ mu.waiting \in {NoHolder, t}
    /\ mu' = [mu EXCEPT !.writer = t, !.waiting = NoHolder]
    /\ \E incomingMap \in PlayerMaps :
          th' = [th EXCEPT ![t].pc = "m-loop",
                           ![t].incoming = incomingMap,
                           ![t].keys = DOMAIN incomingMap]
    /\ UNCHANGED <<maps, versions, calls>>
    /\ UNCHANGED notLock

\* MergeState: one iteration of the range loop, at any key not yet visited.
MergeStep(t) ==
    /\ th[t].pc = "m-loop"
    /\ \E playerId \in th[t].keys :
          /\ maps' = [maps EXCEPT ![StoreRef] =
                         MergeEntry(maps[StoreRef], playerId,
                                    th[t].incoming[playerId])]
          /\ th' = [th EXCEPT ![t].keys = th[t].keys \ {playerId}]
    /\ UNCHANGED <<mu, versions, calls>>
    /\ UNCHANGED notLock

\* MergeState returns: the deferred gs.mu.Unlock().
MergeUnlock(t) ==
    /\ th[t].pc = "m-loop"
    /\ th[t].keys = {}
    /\ mu' = [mu EXCEPT !.writer = NoHolder]
    /\ versions' = versions \cup {maps[StoreRef]}
    /\ th' = [th EXCEPT ![t] = Resting]
    /\ UNCHANGED <<maps, calls>>
    /\ UNCHANGED notLock

\* GetPlayerState: gs.mu.RLock(); result := make(...); the range loop starts.
GetLock(t) ==
    /\ th[t].pc = "g-lock"
    /\ CanRLock(mu)
    /\ mu' = [mu EXCEPT !.readers = mu.readers \cup {t}]
    /\ maps' = [maps EXCEPT ![ResultRef(t)] = EmptyMap]
    /\ th' = [th EXCEPT ![t].pc = "g-loop", ![t].keys = DOMAIN maps[StoreRef]]
    /\ UNCHANGED <<versions, calls>>
    /\ UNCHANGED notLock

\* GetPlayerState: result[playerId] = state, at any key not yet visited.
GetStep(t) ==
    /\ th[t].pc = "g-loop"
    /\ \E playerId \in th[t].keys :
          /\ maps' = [maps EXCEPT ![ResultRef(t)] =
                         MapPut(maps[ResultRef(t)], playerId,
                                maps[StoreRef][playerId])]
          /\ th' = [th EXCEPT ![t].keys = th[t].keys \ {playerId}]
    /\ UNCHANGED <<mu, versions, calls>>
    /\ UNCHANGED notLock

\* GetPlayerState returns result: the deferred gs.mu.RUnlock().
GetUnlock(t) ==
    /\ th[t].pc = "g-loop"
    /\ th[t].keys = {}
    /\ mu' = [mu EXCEPT !.readers = mu.readers \ {t}]
    /\ th' = [th EXCEPT ![t].pc = "returned", ![t].ref = Returned(t)]
    /\ UNCHANGED <<maps, versions, calls>>
    /\ UNCHANGED notLock

\* The caller of GetPlayerState writes an entry into the map it got, and is
\* done with the map: the result map of the call is garbage.
CallerWrite(t) ==
    /\ th[t].pc = "returned"
    /\ \E playerId \in PlayerIds, state \in PlayerState :
          maps' = [[maps EXCEPT ![th[t].ref] =
                       MapPut(maps[th[t].ref], playerId, state)]
                   EXCEPT ![ResultRef(t)] = EmptyMap]
    /\ th' = [th EXCEPT ![t].pc = "written"]
    /\ UNCHANGED <<mu, versions, calls>>
    /\ UNCHANGED notLock

\* The caller is done with the map it got.
CallerDrop(t) ==
    /\ th[t].pc \in {"returned", "written"}
    /\ maps' = [maps EXCEPT ![ResultRef(t)] = EmptyMap]
    /\ th' = [th EXCEPT ![t] = Resting]
    /\ UNCHANGED <<mu, versions, calls>>
    /\ UNCHANGED notLock

\* gossipWithPeer: gs.mu.RLock(); json.Marshal(gs.PlayerMap) starts.
GossipLock(t) ==
    /\ th[t].pc = "j-lock"
    /\ CanRLock(mu)
    /\ mu' = [mu EXCEPT !.readers = mu.readers \cup {t}]
    /\ th' = [th EXCEPT ![t].pc = "j-loop", ![t].keys = DOMAIN maps[StoreRef],
                        ![t].payload = NoBody]
    /\ UNCHANGED <<maps, versions, calls>>
    /\ UNCHANGED notLock

\* json.Marshal encodes one more key of the map.
GossipStep(t) ==
    /\ th[t].pc = "j-loop"
    /\ \E playerId \in th[t].keys :
          th' = [th EXCEPT ![t].keys = th[t].keys \ {playerId},
                           ![t].payload = th[t].payload \cup
                               Marshal(MapPut(EmptyMap, playerId,
                                              maps[StoreRef][playerId]))]
    /\ UNCHANGED <<maps, mu, versions, calls>>
    /\ UNCHANGED notLock

GossipKeepsLock(t) ==
    /\ th[t].pc = "j-loop"
    /\ th[t].keys = {}
    /\ th' = [th EXCEPT ![t].pc = "j-post"]
    /\ UNCHANGED <<maps, mu, versions, calls>>
    /\ UNCHANGED notLock

\* gossipWithPeer: gs.mu.RUnlock(); the payload goes to http.Post.
GossipUnlock(t) ==
    /\ th[t].pc = "j-loop"
    /\ th[t].keys = {}
    /\ mu' = [mu EXCEPT !.readers = mu.readers \ {t}]
    /\ th' = [th EXCEPT ![t].pc = "j-post"]
    /\ UNCHANGED <<maps, versions, calls>>
    /\ UNCHANGED notLock

\* http.Post returns; gossipWithPeer returns.
GossipPost(t) ==
    /\ th[t].pc = "j-post"
    /\ th' = [th EXCEPT ![t] = Resting]
    /\ UNCHANGED <<maps, mu, versions, calls>>
    /\ UNCHANGED notLock

\* The steps a goroutine takes inside a store operation, from the Lock or
\* RLock at its top to the Unlock or RUnlock at its end.
InOperation(t) ==
    th[t].pc \in {"u-lock", "u-body", "u-unlock", "m-lock", "m-loop",
                  "g-lock", "g-loop", "j-lock", "j-loop"}

OperationStep(t) ==
    \/ UpdateLock(t) \/ UpdateBody(t) \/ UpdateUnlock(t)
    \/ MergeLock(t) \/ MergeStep(t) \/ MergeUnlock(t)
    \/ GetLock(t) \/ GetStep(t) \/ GetUnlock(t)
    \/ GossipLock(t) \/ GossipStep(t) \/ GossipUnlock(t)

LockNext ==
    \/ \E t \in Goroutines : CallUpdate(t)
    \/ \E t \in Goroutines : CallMerge(t)
    \/ \E t \in Goroutines : CallGet(t)
    \/ \E t \in Goroutines : CallGossip(t)
    \/ \E t \in Goroutines : LockBehindReaders(t)
    \/ \E t \in Goroutines : UpdateLock(t)
    \/ \E t \in Goroutines : UpdateBody(t)
    \/ \E t \in Goroutines : UpdateUnlock(t)
    \/ \E t \in Goroutines : MergeLock(t)
    \/ \E t \in Goroutines : MergeStep(t)
    \/ \E t \in Goroutines : MergeUnlock(t)
    \/ \E t \in Goroutines : GetLock(t)
    \/ \E t \in Goroutines : GetStep(t)
    \/ \E t \in Goroutines : GetUnlock(t)
    \/ \E t \in Goroutines : CallerWrite(t)
    \/ \E t \in Goroutines : CallerDrop(t)
    \/ \E t \in Goroutines : GossipLock(t)
    \/ \E t \in Goroutines : GossipStep(t)
    \/ \E t \in Goroutines : GossipUnlock(t)
    \/ \E t \in Goroutines : GossipPost(t)

(***************************************************************************)
(* TransportSpec: the HTTP handlers. A request is its path, the values of  *)
(* the query parameters as r.URL.Query().Get returns them ("" when the     *)
(* parameter is missing or empty), the clock reading a write would be      *)
(* stamped with, and the body. A string is a sequence of characters.       *)
(***************************************************************************)
DigitChars == {"0", "1", "2", "3", "4", "5", "6", "7", "8", "9"}
SignChars == {"+", "-"}

DigitValue(c) ==
    CASE c = "0" -> 0 [] c = "1" -> 1 [] c = "2" -> 2 [] c = "3" -> 3
      [] c = "4" -> 4 [] c = "5" -> 5 [] c = "6" -> 6 [] c = "7" -> 7
      [] c = "8" -> 8 [] c = "9" -> 9

\* The characters and strings the score parameter is drawn from.
QueryChars == {"1", "2", "-", "x"}
QueryStrs == UNION {[1..k -> QueryChars] : k \in 0..MaxStrLen}
QueryIds == PlayerIds \cup {""}

\* The number of digits of str from position i on.
RECURSIVE DigitRun(_, _)
DigitRun(str, i) ==
    IF i <= Len(str) /\ str[i] \in DigitChars
    THEN 1 + DigitRun(str, i + 1)
    ELSE 0

\* The decimal value of the n characters of str from position i on.
RECURSIVE DigitsValue(_, _, _)
DigitsValue(str, i, n) ==
    IF n = 0
    THEN 0
    ELSE 10 * DigitsValue(str, i, n - 1) + DigitValue(str[i + n - 1])

\* fmt.Sscanf(scoreStr, "%d", &score): an optional sign, then the digits
\* that follow; an error when there is none. Sscanf stops where the format
\* ends: what follows the digits in the input is not looked at.
Sscanf(str) ==
    LET signed == Len(str) > 0 /\ str[1] \in SignChars
        first == IF signed THEN 2 ELSE 1
        n == DigitRun(str, first)
        v == DigitsValue(str, first, n)
    IN  [err |-> n = 0,
         score |-> IF signed /\ str[1] = "-" THEN 0 - v ELSE v]

\* A request body: whether it is JSON at all, the members of its object,
\* and the keys whose value does not decode into a PlayerState.
Body(syntax, members, mistyped) ==
    [syntax |-> syntax, members |-> members, mistyped |-> mistyped]

NoRequestBody == Body(TRUE, NoBody, {})

Bodies ==
    {Body(FALSE, NoBody, {})}
        \cup UNION {{Body(TRUE, Marshal(pm), bad) : bad \in SUBSET DOMAIN pm} :
                       pm \in PlayerMaps}

\* json.NewDecoder(r.Body).Decode(&incomingMap) returns an error.
DecodeErr(body) == ~body.syntax \/ body.mistyped # {}

StatusOK == 200
StatusBadRequest == 400

Response(status, called, after) ==
    [status |-> status, called |-> called, after |-> after]

\* HandleUpdate on a node whose PlayerMap is pm.
UpdateResponse(pm, playerId, scoreStr, now) ==
    IF playerId = "" \/ scoreStr = <<>>
    THEN Response(StatusBadRequest, FALSE, pm)
    ELSE IF Sscanf(scoreStr).err
    THEN Response(StatusBadRequest, FALSE, pm)
    ELSE Response(StatusOK, TRUE,
                  SetEntry(pm, playerId, Sscanf(scoreStr).score, now))

\* HandleGossip on a node whose PlayerMap is pm.
GossipResponse(pm, body) ==
    IF DecodeErr(body)
    THEN Response(StatusBadRequest, FALSE, pm)
    ELSE Response(StatusOK, TRUE, MergeState(pm, Decode(body.members)))

NoRequest == [path |-> "", playerId |-> "", score |-> <<>>, now |-> 0,
              body |-> NoRequestBody]

TransportIdle ==
    /\ tpc = "start"
    /\ tStore = EmptyMap
    /\ tReq = NoRequest
    /\ tResp = Response(0, FALSE, EmptyMap)

TransportInit ==
    /\ tpc = "start"
    /\ tStore \in PlayerMaps
    /\ tReq = NoRequest
    /\ tResp = Response(0, FALSE, EmptyMap)

UpdateRequest ==
    /\ tpc = "start"
    /\ \E playerId \in QueryIds, scoreStr \in QueryStrs, now \in Stamps :
          /\ tReq' = [NoRequest EXCEPT !.path = "/update",
                                       !.playerId = playerId,
                                       !.score = scoreStr,
                                       !.now = now]
          /\ tResp' = UpdateResponse(tStore, playerId, scoreStr, now)
    /\ tpc' = "served"
    /\ UNCHANGED tStore
    /\ UNCHANGED notTransport

GossipRequest ==
    /\ tpc = "start"
    /\ \E body \in Bodies :
          /\ tReq' = [NoRequest EXCEPT !.path = "/gossip", !.body = body]
          /\ tResp' = GossipResponse(tStore, body)
    /\ tpc' = "served"
    /\ UNCHANGED tStore
    /\ UNCHANGED notTransport

TransportNext == UpdateRequest \/ GossipRequest

(***************************************************************************)
(* Spec: the cluster. Each node runs gossipLoop and serves /update and     *)
(* /gossip. A critical section of gs.mu is one step (LockSpec models the   *)
(* lock); everything a goroutine does outside the lock is a step of its    *)
(* own, so the map can change between the read of the payload and its      *)
(* delivery.                                                               *)
(***************************************************************************)
Nodes == {"n1", "n2"}

\* An address at which no node of the cluster serves /gossip: the connection
\* fails, or whatever listens there answers with a non-success status.
Down == "down"

Addrs == Nodes \cup {Down}

\* The -peers flag of each node, as main splits it.
FullMesh == [n \in Nodes |-> IF n = "n1" THEN <<"n2">> ELSE <<"n1">>]
PartialMesh == [n \in Nodes |-> IF n = "n1" THEN <<"n2", Down>> ELSE <<>>]

\* gossipLoop waiting for a tick. peerAddr and err are those of the last
\* gossipWithPeer call: the peer it posted to and whether http.Post returned
\* an error. skipped: the last tick found no peers and took the continue.
\* killed: the node's process has been ended (the stop script's kill).
Idle == [pc |-> "tick", peerAddr |-> "", payload |-> NoBody, read |-> EmptyMap,
         err |-> FALSE, skipped |-> FALSE, killed |-> FALSE]

Alive(n) == ~loop[n].killed

ClusterIdle ==
    /\ Peers = [n \in Nodes |-> <<>>]
    /\ PlayerMap = [n \in Nodes |-> EmptyMap]
    /\ loop = [n \in Nodes |-> Idle]
    /\ attempts = [n \in Nodes |-> 0]
    /\ writes = 0
    /\ lastState = EmptyMap

\* main: NewGameServer(id, addr, peers) and gs.Start() on every node.
ClusterInit ==
    /\ Peers \in {FullMesh, PartialMesh}
    /\ PlayerMap = [n \in Nodes |-> EmptyMap]
    /\ loop = [n \in Nodes |-> Idle]
    /\ attempts = [n \in Nodes |-> 0]
    /\ writes = MaxWrites
    /\ lastState = EmptyMap

\* gossipLoop: a tick arrives on ticker.C. With no peers the loop goes back
\* to wait; otherwise it picks gs.Peers[rand.Intn(len(gs.Peers))] and calls
\* gossipWithPeer.
PickPeer(n, i) == Peers[n][i]

TickPostsWithoutPeers(n) ==
    /\ Alive(n)
    /\ loop[n].pc = "tick"
    /\ \E a \in IF Len(Peers[n]) = 0
                THEN {""}
                ELSE {Peers[n][i] : i \in 1..Len(Peers[n])} :
          loop' = [loop EXCEPT ![n] = [Idle EXCEPT !.pc = "marshal",
                                                   !.peerAddr = a]]
    /\ attempts' = [attempts EXCEPT ![n] = 0]
    /\ UNCHANGED <<Peers, PlayerMap, writes, lastState>>
    /\ UNCHANGED notCluster

Tick(n) ==
    /\ Alive(n)
    /\ loop[n].pc = "tick"
    /\ IF Len(Peers[n]) = 0
       THEN /\ loop' = [loop EXCEPT ![n].skipped = TRUE]
            /\ attempts' = [attempts EXCEPT ![n] = 0]
       ELSE \E i \in 1..Len(Peers[n]) :
               /\ loop' = [loop EXCEPT ![n] = [Idle EXCEPT !.pc = "marshal",
                                                        !.peerAddr = PickPeer(n, i)]]
               /\ attempts' = [attempts EXCEPT ![n] = 0]
    /\ UNCHANGED <<Peers, PlayerMap, writes, lastState>>
    /\ UNCHANGED notCluster

\* gossipWithPeer: RLock, json.Marshal(gs.PlayerMap), RUnlock.
MarshalPayload(n) ==
    /\ Alive(n)
    /\ loop[n].pc = "marshal"
    /\ loop' = [loop EXCEPT ![n].pc = "post",
                            ![n].payload = Marshal(PlayerMap[n]),
                            ![n].read = PlayerMap[n]]
    /\ UNCHANGED <<Peers, PlayerMap, attempts, writes, lastState>>
    /\ UNCHANGED notCluster

\* gossipWithPeer: http.Post(url, "application/json", payload) is called.
PostSend(n) ==
    /\ Alive(n)
    /\ loop[n].pc = "post"
    /\ loop' = [loop EXCEPT ![n].pc = "await"]
    /\ attempts' = [attempts EXCEPT ![n] = attempts[n] + 1]
    /\ UNCHANGED <<Peers, PlayerMap, writes, lastState>>
    /\ UNCHANGED notCluster

\* http.Post returns an error: gossipWithPeer returns, the loop waits for
\* the next tick.
PostFailRetries(n) ==
    /\ Alive(n)
    /\ loop[n].pc = "await"
    /\ loop' = [loop EXCEPT ![n].pc = "post", ![n].err = TRUE]
    /\ UNCHANGED <<Peers, PlayerMap, attempts, writes, lastState>>
    /\ UNCHANGED notCluster

PostFailStopsLoop(n) ==
    /\ Alive(n)
    /\ loop[n].pc = "await"
    /\ loop' = [loop EXCEPT ![n].pc = "stopped", ![n].err = TRUE]
    /\ UNCHANGED <<Peers, PlayerMap, attempts, writes, lastState>>
    /\ UNCHANGED notCluster

PostFailDropsPeer(n) ==
    /\ Alive(n)
    /\ loop[n].pc = "await"
    /\ loop' = [loop EXCEPT ![n] = [Idle EXCEPT !.peerAddr = loop[n].peerAddr,
                                                !.err = TRUE]]
    /\ Peers' = [Peers EXCEPT ![n] =
                    SelectSeq(Peers[n], LAMBDA a : a # loop[n].peerAddr)]
    /\ UNCHANGED <<PlayerMap, attempts, writes, lastState>>
    /\ UNCHANGED notCluster

PostFail(n) ==
    /\ Alive(n)
    /\ loop[n].pc = "await"
    /\ loop' = [loop EXCEPT ![n] = [Idle EXCEPT !.peerAddr = loop[n].peerAddr,
                                                !.err = TRUE]]
    /\ UNCHANGED <<Peers, PlayerMap, attempts, writes, lastState>>
    /\ UNCHANGED notCluster

\* http.Post returns a response with a non-success status and no error:
\* gossipWithPeer does not look at the status; it closes the body and
\* returns.
PostRejected(n) ==
    /\ Alive(n)
    /\ loop[n].pc = "await"
    /\ loop[n].peerAddr \notin Nodes
    /\ loop' = [loop EXCEPT ![n] = [Idle EXCEPT !.peerAddr = loop[n].peerAddr]]
    /\ UNCHANGED <<Peers, PlayerMap, attempts, writes, lastState>>
    /\ UNCHANGED notCluster

HandleGossipExchange(n) ==
    /\ Alive(n)
    /\ loop[n].pc = "await"
    /\ loop[n].peerAddr \in Nodes
    /\ Alive(loop[n].peerAddr)
    /\ PlayerMap' = [PlayerMap EXCEPT
                        ![loop[n].peerAddr] =
                            MergeState(PlayerMap[loop[n].peerAddr],
                                       Decode(loop[n].payload)),
                        ![n] = MergeState(PlayerMap[n],
                                          PlayerMap[loop[n].peerAddr])]
    /\ loop' = [loop EXCEPT ![n] = [Idle EXCEPT !.peerAddr = loop[n].peerAddr]]
    /\ UNCHANGED <<Peers, attempts, writes, lastState>>
    /\ UNCHANGED notCluster

\* The request reaches the peer: HandleGossip decodes the body and calls
\* MergeState; http.Post returns the response and gossipWithPeer closes it.
HandleGossip(n) ==
    /\ Alive(n)
    /\ loop[n].pc = "await"
    /\ loop[n].peerAddr \in Nodes
    /\ Alive(loop[n].peerAddr)
    /\ PlayerMap' = [PlayerMap EXCEPT ![loop[n].peerAddr] =
                        MergeState(PlayerMap[loop[n].peerAddr],
                                   Decode(loop[n].payload))]
    /\ loop' = [loop EXCEPT ![n] = [Idle EXCEPT !.peerAddr = loop[n].peerAddr]]
    /\ UNCHANGED <<Peers, attempts, writes, lastState>>
    /\ UNCHANGED notCluster

\* HandleUpdate: a well-formed /update request; UpdatePlayerScore stamps it
\* with the node's wall clock, which may read any value.
HandleUpdate(n) ==
    /\ Alive(n)
    /\ writes > 0
    /\ \E playerId \in PlayerIds, score \in Scores, now \in Stamps :
          PlayerMap' = [PlayerMap EXCEPT ![n] =
                           SetEntry(PlayerMap[n], playerId, score, now)]
    /\ writes' = writes - 1
    /\ UNCHANGED <<Peers, loop, attempts, lastState>>
    /\ UNCHANGED notCluster

\* HandleGetState: a /state request; the response body is the map
\* GetPlayerState returns.
HandleGetState(n) ==
    /\ Alive(n)
    /\ writes > 0
    /\ lastState' = GetPlayerState(PlayerMap[n])
    /\ writes' = writes - 1
    /\ UNCHANGED <<Peers, PlayerMap, loop, attempts>>
    /\ UNCHANGED notCluster

Next ==
    \/ \E n \in Nodes : Tick(n)
    \/ \E n \in Nodes : MarshalPayload(n)
    \/ \E n \in Nodes : PostSend(n)
    \/ \E n \in Nodes : PostFail(n)
    \/ \E n \in Nodes : PostRejected(n)
    \/ \E n \in Nodes : HandleGossip(n)
    \/ \E n \in Nodes : HandleUpdate(n)
    \/ \E n \in Nodes : HandleGetState(n)

Init == ClusterInit /\ CallIdle /\ StoreIdle /\ LockIdle /\ TransportIdle

Spec == Init /\ [][Next]_vars

(***************************************************************************)
(* FairSpec: the cluster under fair gossip, every node listing the other   *)
(* as its peer. Every ticker keeps ticking and rand.Intn picks every peer  *)
(* again and again (strong fairness of a tick that picks a given peer: the *)
(* tick is not enabled while a post is out); a started gossipWithPeer goes  *)
(* on to its post; and posts to a peer that are made again and again are    *)
(* delivered again and again (strong fairness: a post may also fail).       *)
(***************************************************************************)
TickTo(n, a) == Tick(n) /\ loop'[n].pc = "marshal" /\ loop'[n].peerAddr = a

DeliverTo(n, a) == HandleGossip(n) /\ loop[n].peerAddr = a

Fairness ==
    /\ \A n \in Nodes : \A a \in Addrs : SF_vars(TickTo(n, a))
    /\ \A n \in Nodes : WF_vars(MarshalPayload(n))
    /\ \A n \in Nodes : WF_vars(PostSend(n))
    /\ \A n \in Nodes : \A a \in Addrs : SF_vars(DeliverTo(n, a))

FairInit == Init /\ Peers = FullMesh

\* Every peer address is a node of the cluster: no post is answered by
\* anything but HandleGossip.
FairNext ==
    \/ \E n \in Nodes : Tick(n)
    \/ \E n \in Nodes : MarshalPayload(n)
    \/ \E n \in Nodes : PostSend(n)
    \/ \E n \in Nodes : PostFail(n)
    \/ \E n \in Nodes : HandleGossip(n)
    \/ \E n \in Nodes : HandleUpdate(n)
    \/ \E n \in Nodes : HandleGetState(n)

FairSpec == FairInit /\ [][FairNext]_vars /\ Fairness

(***************************************************************************)
(* TickingSpec: the cluster with what the code's scheduling gives a        *)
(* gossipLoop: its ticker keeps ticking and its goroutine keeps running    *)
(* (weak fairness of the tick, of the payload read and of the call of      *)
(* http.Post). Nothing makes http.Post return: it is called on             *)
(* http.DefaultClient, which has no timeout.                               *)
(***************************************************************************)
TickFairness ==
    /\ \A n \in Nodes : WF_vars(Tick(n))
    /\ \A n \in Nodes : WF_vars(MarshalPayload(n))
    /\ \A n \in Nodes : WF_vars(PostSend(n))

TickingSpec == Init /\ [][Next]_vars /\ TickFairness

(***************************************************************************)
(* ShutdownSpec: the cluster with nodes being stopped. The stop script     *)
(* sends each process the default signal of kill; main installs no handler *)
(* and GameServer has no way to stop gossipLoop, so the process ends where *)
(* it is.                                                                  *)
(***************************************************************************)
Kill(n) ==
    /\ Alive(n)
    /\ loop' = [loop EXCEPT ![n].killed = TRUE]
    /\ UNCHANGED <<Peers, PlayerMap, attempts, writes, lastState>>
    /\ UNCHANGED notCluster

ShutdownNext ==
    \/ \E n \in Nodes : Tick(n)
    \/ \E n \in Nodes : MarshalPayload(n)
    \/ \E n \in Nodes : PostSend(n)
    \/ \E n \in Nodes : PostFail(n)
    \/ \E n \in Nodes : PostRejected(n)
    \/ \E n \in Nodes : HandleGossip(n)
    \/ \E n \in Nodes : HandleUpdate(n)
    \/ \E n \in Nodes : HandleGetState(n)
    \/ \E n \in Nodes : Kill(n)

ShutdownSpec == Init /\ [][ShutdownNext]_vars /\ TickFairness

CallSpecInit == CallInit /\ StoreIdle /\ ClusterIdle /\ LockIdle /\ TransportIdle
StoreSpecInit == StoreInit /\ CallIdle /\ ClusterIdle /\ LockIdle /\ TransportIdle
LockSpecInit == LockInit /\ CallIdle /\ StoreIdle /\ ClusterIdle /\ TransportIdle
TransportSpecInit ==
    TransportInit /\ CallIdle /\ StoreIdle /\ ClusterIdle /\ LockIdle

TransportSpec == TransportSpecInit /\ [][TransportNext]_vars

LockSpec == LockSpecInit /\ [][LockNext]_vars

\* A goroutine that is inside a store operation and can take a step takes it:
\* the Go scheduler runs every runnable goroutine. Nothing is assumed about
\* when callers call, nor about http.Post returning.
FairLockInit ==
    LockFresh /\ CallIdle /\ StoreIdle /\ ClusterIdle /\ TransportIdle

LockFairness == \A t \in Goroutines : WF_vars(OperationStep(t))

FairLockSpec == FairLockInit /\ [][LockNext]_vars /\ LockFairness

CallSpec == CallSpecInit /\ [][CallNext]_vars
StoreSpec == StoreSpecInit /\ [][StoreNext]_vars

(***************************************************************************)
(* Claims about the cluster (Spec, FairSpec).                              *)
(***************************************************************************)
Converged == \A n \in Nodes : \A m \in Nodes : PlayerMap[n] = PlayerMap[m]

\* C2: with finitely many local writes and fair gossip between connected
\* nodes, a state is eventually reached, and kept forever, in which all
\* nodes hold the same entry (score and timestamp) for every player id.
EventuallyConverged == <>[]Converged

\* C10: on a tick with a non-empty peer set the gossip loop makes exactly
\* one delivery attempt, to an address of the node's peer set, and the
\* payload is the node's full state at the moment of the read.
OnePushOfFullState ==
    \A n \in Nodes :
        /\ loop[n].pc \in {"marshal", "post"} => attempts[n] = 0
        /\ loop[n].pc = "await" => attempts[n] = 1
        /\ loop[n].pc = "tick" =>
              attempts[n] = IF loop[n].peerAddr = "" THEN 0 ELSE 1
        /\ loop[n].pc # "tick" =>
              \E i \in 1..Len(Peers[n]) : Peers[n][i] = loop[n].peerAddr
        /\ loop[n].pc \in {"post", "await"} =>
              /\ {m.key : m \in loop[n].payload} = DOMAIN loop[n].read
              /\ Decode(loop[n].payload) = loop[n].read

\* C10 witness: a post is out to the second of two peers, carrying both ids
\* of the sender's map.
OnePushOfFullStateWitness ==
    /\ loop["n1"].pc = "await"
    /\ Len(Peers["n1"]) = 2
    /\ loop["n1"].peerAddr = Peers["n1"][2]
    /\ DOMAIN Decode(loop["n1"].payload) = PlayerIds
    /\ loop["n1"].read = PlayerMap["n1"]
    /\ attempts["n1"] = 1

\* C11: a tick on a node whose peer set is empty is a no-op: the node makes
\* no delivery attempt and holds no payload or error, the tick changes no
\* store and no peer set, and the loop is back waiting for the next tick.
NoPeersNoAttempt ==
    \A n \in Nodes :
        Len(Peers[n]) = 0 =>
            /\ loop[n].pc = "tick"
            /\ attempts[n] = 0
            /\ ~loop[n].err
            /\ loop[n].payload = NoBody
            /\ loop[n].skipped => ENABLED Tick(n)

SkippedTick(n) == ~loop[n].skipped /\ loop'[n].skipped

SkippedTickChangesNothing ==
    \A n \in Nodes :
        SkippedTick(n) =>
            /\ Len(Peers[n]) = 0
            /\ PlayerMap' = PlayerMap
            /\ Peers' = Peers
            /\ attempts' = attempts
            /\ loop' = [loop EXCEPT ![n].skipped = TRUE]

EmptyTickIsNoOp ==
    /\ []NoPeersNoAttempt
    /\ [][SkippedTickChangesNothing]_vars

\* C11 witness: n2 has no peers, holds an entry, and has had a tick.
EmptyTickIsNoOpWitness ==
    /\ Len(Peers["n2"]) = 0
    /\ loop["n2"].skipped
    /\ loop["n2"].pc = "tick"
    /\ PlayerMap["n2"] # EmptyMap
    /\ attempts["n2"] = 0

\* C12: a failed delivery (http.Post returns an error, or the response has
\* a non-success status) is swallowed: the step changes no store and no
\* peer set, makes no second send in the tick, and leaves the loop waiting
\* for its next tick.
FailedDelivery(n) ==
    /\ loop[n].pc = "await"
    /\ loop'[n].pc # "await"
    /\ loop'[n].err \/ loop[n].peerAddr \notin Nodes

FailedDeliveryChangesNothing ==
    \A n \in Nodes :
        FailedDelivery(n) =>
            /\ PlayerMap' = PlayerMap
            /\ Peers' = Peers
            /\ attempts' = attempts
            /\ loop'[n].pc = "tick"

AtMostOneSend ==
    \A n \in Nodes :
        /\ attempts[n] <= 1
        /\ loop[n].err => (loop[n].pc = "tick" /\ attempts[n] = 1)

FailedDeliverySwallowed ==
    /\ []AtMostOneSend
    /\ [][FailedDeliveryChangesNothing]_vars

\* C12 witness: n1's post to the address nobody serves returned an error;
\* n1 still holds an entry and both peers.
FailedDeliverySwallowedWitness ==
    /\ loop["n1"].pc = "tick"
    /\ loop["n1"].err
    /\ loop["n1"].peerAddr = Down
    /\ Len(Peers["n1"]) = 2
    /\ PlayerMap["n1"] # EmptyMap
    /\ attempts["n1"] = 1

\* C13: a delivery that never completes does not starve the node's later
\* ticks: whenever a post is out, the node's loop later makes a peer
\* selection again.
TicksGoOnDuringDelivery ==
    \A n \in Nodes : (loop[n].pc = "await") ~> (loop[n].pc = "marshal")

\* C14: after a node's shutdown is requested, its gossipLoop eventually
\* returns.
GossipLoopReturnsOnShutdown ==
    \A n \in Nodes : loop[n].killed ~> (loop[n].pc = "returned")

\* C15: no failure stops the gossip loop: after a failed delivery the loop
\* waits for its next tick, a tick can select every member of the peer set,
\* the failed peer included, and a selection follows.
EverySelectable(n) ==
    \A i \in 1..Len(Peers[n]) : ENABLED TickTo(n, Peers[n][i])

TickSelectsAny ==
    \A n \in Nodes :
        /\ loop[n].err => loop[n].pc = "tick"
        /\ loop[n].pc = "tick" => EverySelectable(n)

LoopSurvivesFailure ==
    /\ []TickSelectsAny
    /\ \A n \in Nodes : loop[n].err ~> (loop[n].pc = "marshal")

\* C15 witness: n1's post to its peer n2 returned an error and n1 is waiting
\* for its next tick.
LoopSurvivesFailureWitness ==
    /\ loop["n1"].pc = "tick"
    /\ loop["n1"].err
    /\ loop["n1"].peerAddr = "n2"
    /\ Peers["n1"] = <<"n2">>
    /\ EverySelectable("n1")

\* C17: a node's store starts empty and no step removes an id from it: the
\* set of ids of every store only grows.
IdsKept ==
    \A n \in Nodes : DOMAIN PlayerMap[n] \subseteq DOMAIN PlayerMap'[n]

StoreOnlyGrows ==
    /\ \A n \in Nodes : PlayerMap[n] = EmptyMap
    /\ [][IdsKept]_vars

\* C17 witness: n1 and n2 were written one id each, n1 pushed its map to n2
\* and n2 holds both ids.
StoreOnlyGrowsWitness ==
    /\ DOMAIN PlayerMap["n1"] = {"alice"}
    /\ DOMAIN PlayerMap["n2"] = PlayerIds
    /\ loop["n1"].pc = "tick"
    /\ loop["n1"].peerAddr = "n2"
    /\ ~loop["n1"].err
    /\ writes = 0

\* C21: a node's peer set never changes after startup: no step adds,
\* removes or reorders a peer address.
PeersFixed == [][Peers' = Peers]_vars

\* C21 witness: n1 still lists both its peers after a post to the second
\* returned an error, a write and a /state request.
PeersFixedWitness ==
    /\ Peers["n1"] = <<"n2", Down>>
    /\ loop["n1"].pc = "tick"
    /\ loop["n1"].err
    /\ loop["n1"].peerAddr = Down
    /\ lastState # EmptyMap
    /\ writes = 0

\* C25: gossip is push-only: a step of node A's gossip loop never changes
\* A's own store, and the only store it can change is that of the peer it
\* posted to, by that peer's MergeState of the payload A read.
PushOnlyStep ==
    \A n \in Nodes :
        loop'[n] # loop[n] =>
            /\ PlayerMap'[n] = PlayerMap[n]
            /\ \A m \in Nodes :
                  PlayerMap'[m] # PlayerMap[m] =>
                      /\ loop[n].pc = "await"
                      /\ m = loop[n].peerAddr
                      /\ PlayerMap'[m] = MergeState(PlayerMap[m], loop[n].read)

IsInteger(str) ==
    LET first == IF Len(str) > 0 /\ str[1] \in SignChars THEN 2 ELSE 1
    IN  /\ first <= Len(str)
        /\ \A i \in first..Len(str) : str[i] \in DigitChars

MalformedRequest ==
    \/ /\ tReq.path = "/update"
       /\ tReq.playerId = "" \/ ~IsInteger(tReq.score)
    \/ /\ tReq.path = "/gossip"
       /\ DecodeErr(tReq.body)

\* C18: a malformed request never reaches the core: a write with a missing
\* or empty player id, a missing score or a score that is not an integer,
\* and a gossip request whose body cannot be decoded, are answered with an
\* error, call neither UpdatePlayerScore nor MergeState and leave the store
\* as it was.
MalformedIsRejected ==
    (tpc = "served" /\ MalformedRequest) =>
        /\ tResp.status = StatusBadRequest
        /\ ~tResp.called
        /\ tResp.after = tStore

(***************************************************************************)
(* Claims about the lock (LockSpec).                                       *)
(***************************************************************************)
Store == maps[StoreRef]

InWrite(t) == th[t].pc \in {"u-body", "u-unlock", "m-loop"}
InRead(t) == th[t].pc \in {"g-loop", "j-loop"}

\* C7: a GetPlayerState that runs while UpdatePlayerScore calls are made
\* returns no torn map: the map it returns is the PlayerMap as it was after
\* some prefix of the applied writes, so each entry's score and timestamp
\* come from one write.
GetReturnsAVersion ==
    \A t \in Goroutines :
        th[t].pc = "returned" => maps[ResultRef(t)] \in versions

\* C7 witness: GetPlayerState returned both ids after two UpdatePlayerScore
\* assignments were made while the call was under way.
GetReturnsAVersionWitness ==
    /\ th[1].pc = "returned"
    /\ th[1].during >= 2
    /\ DOMAIN maps[ResultRef(1)] = PlayerIds
    /\ maps[ResultRef(1)] \in versions
    /\ Cardinality(versions) >= 3

\* C8: MergeState is atomic: while a pass is under way no goroutine reads
\* the map (no GetPlayerState copy, no gossip payload read) or writes it,
\* a gossip payload read holds the PlayerMap of before or after a pass, and
\* the map changes during a pass only by the pass's own iterations.
MergePassExcludes ==
    \A m \in Goroutines :
        th[m].pc = "m-loop" =>
            /\ mu.writer = m
            /\ \A o \in Goroutines \ {m} : ~InWrite(o) /\ ~InRead(o)

PayloadIsAVersion ==
    \A t \in Goroutines :
        th[t].pc = "j-post" => Decode(th[t].payload) \in versions

MergePassStep(m) ==
    \E playerId \in th[m].keys :
        /\ th'[m].keys = th[m].keys \ {playerId}
        /\ maps'[StoreRef] = MergeEntry(maps[StoreRef], playerId,
                                         th[m].incoming[playerId])

MergePassAlone ==
    \A m \in Goroutines :
        (th[m].pc = "m-loop" /\ maps'[StoreRef] # maps[StoreRef])
            => MergePassStep(m)

MergeIsAtomic ==
    /\ [](MergePassExcludes /\ PayloadIsAVersion /\ GetReturnsAVersion)
    /\ [][MergePassAlone]_vars

\* C8 witness: a pass has applied one of the two ids of its payload and
\* changed the map, while another goroutine waits in GetPlayerState for the
\* lock.
MergeIsAtomicWitness ==
    /\ th[1].pc = "m-loop"
    /\ DOMAIN th[1].incoming = PlayerIds
    /\ Cardinality(th[1].keys) = 1
    /\ Store \notin versions
    /\ th[2].pc = "g-lock"

\* C9: the map GetPlayerState returned is a copy of its own: a later
\* UpdatePlayerScore or MergeState does not change it, and what the caller
\* writes into it does not change gs.PlayerMap.
ResultUntouched ==
    \A t \in Goroutines :
        (th[t].pc = "returned" /\ th'[t].pc = "returned")
            => maps'[th[t].ref] = maps[th[t].ref]

StoreUntouched ==
    \A t \in Goroutines :
        (th[t].pc = "returned" /\ th'[t].pc = "written")
            => maps'[StoreRef] = maps[StoreRef]

ResultIsOwnCopy == [][ResultUntouched /\ StoreUntouched]_vars

\* C9 witness: goroutine 1 holds a returned map that differs from
\* gs.PlayerMap, which was written after the return, and goroutine 2 has
\* written into the map it got.
ResultIsOwnCopyWitness ==
    /\ th[1].pc = "returned"
    /\ maps[th[1].ref] # Store
    /\ maps[th[1].ref] \in versions
    /\ th[2].pc = "written"
    /\ Store \in versions

\* C19: a writer (UpdatePlayerScore, MergeState) is never inside its critical
\* section while another writer or a reader (GetPlayerState, the payload
\* read of gossipWithPeer) is inside its own; a goroutine inside a section
\* holds gs.mu in the section's mode.
WritersExcludeAll ==
    \A t \in Goroutines :
        /\ InWrite(t) =>
              /\ mu.writer = t
              /\ mu.readers = {}
              /\ \A o \in Goroutines \ {t} : ~InWrite(o) /\ ~InRead(o)
        /\ InRead(t) => (t \in mu.readers /\ mu.writer = NoHolder)

\* C19 witness: goroutine 1 is inside a MergeState pass; goroutine 2 called
\* GetPlayerState and cannot take the read lock.
WritersExcludeAllWitness ==
    /\ th[1].pc = "m-loop"
    /\ th[1].keys # {}
    /\ th[2].pc = "g-lock"
    /\ ~ENABLED GetLock(2)

\* Two readers inside their sections at once.
ReadersOverlap ==
    /\ th[1].pc = "g-loop"
    /\ th[2].pc = "j-loop"
    /\ mu.readers = {1, 2}

\* C20: gs.mu is never held during the network call: a goroutine in
\* http.Post holds the lock in no mode, and a goroutine waiting for the lock
\* can take it while no other goroutine is inside a critical section or
\* has announced a Lock ahead of it.
Posting(t) == th[t].pc = "j-post"

OnlyPostsOut(o) ==
    /\ \A x \in Goroutines \ {o} : ~InWrite(x) /\ ~InRead(x)
    /\ mu.waiting \in {NoHolder, o}

PostHoldsNoLock ==
    \A t \in Goroutines :
        Posting(t) =>
            /\ t \notin mu.readers
            /\ mu.writer # t
            /\ \A o \in Goroutines \ {t} :
                  OnlyPostsOut(o) =>
                      /\ th[o].pc = "u-lock" => ENABLED UpdateLock(o)
                      /\ th[o].pc = "m-lock" => ENABLED MergeLock(o)
                      /\ th[o].pc = "g-lock" => ENABLED GetLock(o)
                      /\ th[o].pc = "j-lock" => ENABLED GossipLock(o)

\* C20 witness: goroutine 1 is in http.Post with a payload of both ids while
\* goroutine 2 is inside UpdatePlayerScore, holding the write lock.
PostHoldsNoLockWitness ==
    /\ Posting(1)
    /\ DOMAIN Decode(th[1].payload) = PlayerIds
    /\ th[2].pc = "u-unlock"
    /\ mu.writer = 2
    /\ Store # Decode(th[1].payload)

\* C23: no store operation blocks forever on gs.mu. A goroutine that is in
\* none of UpdatePlayerScore, MergeState, GetPlayerState and the payload read
\* of gossipWithPeer holds the lock in no mode and has no Lock announced;
\* while some goroutine is in one of them, some such goroutine can take a
\* step; and under fair scheduling every started operation returns.
LockReleased ==
    \A t \in Goroutines :
        ~InOperation(t) =>
            /\ mu.writer # t
            /\ t \notin mu.readers
            /\ mu.waiting # t

NoDeadlock ==
    (\E t \in Goroutines : InOperation(t)) =>
        \E t \in Goroutines : ENABLED OperationStep(t)

EveryOperationCompletes ==
    /\ [](LockReleased /\ NoDeadlock)
    /\ \A t \in Goroutines : InOperation(t) ~> ~InOperation(t)

\* C23 witness: every call of the budget is made and one has returned;
\* goroutine 2 called UpdatePlayerScore, announced its Lock and waits
\* behind goroutine 1, which reads the gossip payload.
EveryOperationCompletesWitness ==
    /\ calls = 0
    /\ th[1].pc = "j-loop"
    /\ th[2].pc = "u-lock"
    /\ mu.waiting = 2
    /\ ~ENABLED OperationStep(2)

(***************************************************************************)
(* Claims about single calls (CallSpec).                                   *)
(***************************************************************************)

\* C3: MergeState(incoming) replaces the local entry of an id iff the id is
\* locally absent or the incoming timestamp is strictly greater; an incoming
\* entry with an equal or smaller timestamp is discarded and the local entry
\* stays as it was, whatever the incoming score.
MergeReplacesIffNewer ==
    mpc \in {"once", "twice", "orders"} =>
        /\ DOMAIN mOnce = (DOMAIN mLocal) \cup (DOMAIN mFirst)
        /\ \A id \in DOMAIN mFirst :
              IF id \notin DOMAIN mLocal
                    \/ mFirst[id].Timestamp > mLocal[id].Timestamp
              THEN mOnce[id] = mFirst[id]
              ELSE mOnce[id] = mLocal[id]

\* C3 witness: a merge discarded an entry of equal timestamp and another
\* score, and replaced an entry of smaller timestamp.
MergeReplacesIffNewerWitness ==
    /\ mpc = "once"
    /\ DOMAIN mLocal = PlayerIds
    /\ DOMAIN mFirst = PlayerIds
    /\ mFirst["alice"].Timestamp = mLocal["alice"].Timestamp
    /\ mFirst["alice"].Score # mLocal["alice"].Score
    /\ mOnce["alice"] = mLocal["alice"]
    /\ mFirst["bob"].Timestamp > mLocal["bob"].Timestamp
    /\ mFirst["bob"].Score # mLocal["bob"].Score
    /\ mOnce["bob"] = mFirst["bob"]

\* C16: when MergeState receives an entry for an id the store does not hold
\* (any entry, when the store is empty), the store afterwards holds that id
\* with exactly the incoming score and timestamp.
MergeCreatesUnknown ==
    mpc = "once" =>
        \A id \in DOMAIN mFirst \ DOMAIN mLocal :
            /\ id \in DOMAIN mOnce
            /\ mOnce[id].Score = mFirst[id].Score
            /\ mOnce[id].Timestamp = mFirst[id].Timestamp

\* C16 witness: a payload with both ids, one of them unknown to the store
\* and older than the entry the store holds for the other.
MergeCreatesUnknownWitness ==
    /\ mpc = "once"
    /\ DOMAIN mLocal = {"alice"}
    /\ DOMAIN mFirst = PlayerIds
    /\ mFirst["bob"].Timestamp < mLocal["alice"].Timestamp
    /\ mOnce["bob"] = mFirst["bob"]

\* C22: MergeState never lowers a stored timestamp: every id the store held
\* before a merge is held after it with a timestamp at least as great, for
\* a first, a repeated and a later payload alike.
NotOlder(before, after) ==
    \A id \in DOMAIN before :
        /\ id \in DOMAIN after
        /\ after[id].Timestamp >= before[id].Timestamp

MergeNeverLowers ==
    /\ mpc \in {"once", "twice", "orders"} => NotOlder(mLocal, mOnce)
    /\ mpc = "twice" => NotOlder(mOnce, mTwice)
    /\ mpc = "orders" => NotOlder(mOnce, mAB)

\* C22 witness: a payload older than the stored entry, with another score,
\* came after a first payload had been merged; the entry stayed as it was.
MergeNeverLowersWitness ==
    /\ mpc = "orders"
    /\ "alice" \in DOMAIN mLocal
    /\ "alice" \in DOMAIN mFirst
    /\ mFirst["alice"].Timestamp < mLocal["alice"].Timestamp
    /\ mFirst["alice"].Score # mLocal["alice"].Score
    /\ mOnce["alice"] = mLocal["alice"]
    /\ mAB["alice"] = mLocal["alice"]

\* C24: Set and Merge change only the ids they name: UpdatePlayerScore
\* leaves the entry of every id but its own as it was, present or absent,
\* and MergeState leaves as it was every id that is no key of the payload.
SameAt(before, after, id) ==
    /\ id \in DOMAIN after <=> id \in DOMAIN before
    /\ id \in DOMAIN before => after[id] = before[id]

OnlyNamedIdsChange ==
    /\ mpc \in {"set", "get"} =>
          \A id \in PlayerIds \ {mSet.id} : SameAt(mLocal, mAfterSet, id)
    /\ mpc \in {"once", "twice", "orders"} =>
          \A id \in PlayerIds \ DOMAIN mFirst : SameAt(mLocal, mOnce, id)

\* C24 witness: the store holds both ids, the payload names alice only and
\* replaces her entry; bob's entry is as it was.
OnlyNamedIdsChangeWitness ==
    /\ mpc = "once"
    /\ DOMAIN mLocal = PlayerIds
    /\ DOMAIN mFirst = {"alice"}
    /\ mOnce["alice"] # mLocal["alice"]
    /\ mOnce["bob"] = mLocal["bob"]

\* The same for a write: alice is written, bob's entry is as it was.
SetLeavesOthersWitness ==
    /\ mpc = "set"
    /\ DOMAIN mLocal = PlayerIds
    /\ mSet.id = "alice"
    /\ mAfterSet["alice"] # mLocal["alice"]
    /\ mAfterSet["bob"] = mLocal["bob"]

\* C4: applying two payloads through MergeState in either order yields the
\* same PlayerMap, payloads with the same id and the same timestamp included.
MergeOrderIndependent == mpc = "orders" => mAB = mBA

\* C5: MergeState with the same payload twice in a row leaves the PlayerMap
\* as it was after the first call.
MergeIdempotent == mpc = "twice" => mTwice = mOnce

\* C5 witness: the second call ran after a first call that changed an entry
\* and discarded another of equal timestamp.
MergeIdempotentWitness ==
    /\ mpc = "twice"
    /\ DOMAIN mLocal = PlayerIds
    /\ DOMAIN mFirst = PlayerIds
    /\ mOnce["alice"] # mLocal["alice"]
    /\ mFirst["bob"].Timestamp = mLocal["bob"].Timestamp
    /\ mFirst["bob"].Score # mLocal["bob"].Score
    /\ mTwice = mOnce

\* C6: UpdatePlayerScore(id, score) overwrites the entry of id with the score
\* and the clock reading, whatever timestamp the entry had, and a
\* GetPlayerState that directly follows shows the new score for id.
UpdateOverwrites ==
    /\ mpc \in {"set", "get"} =>
          /\ mSet.id \in DOMAIN mAfterSet
          /\ mAfterSet[mSet.id] = [Score |-> mSet.score, Timestamp |-> mSet.now]
    /\ mpc = "get" =>
          /\ mSet.id \in DOMAIN mRet
          /\ mRet[mSet.id].Score = mSet.score

\* C6 witness: GetPlayerState ran right after an UpdatePlayerScore whose
\* stamp was smaller than the timestamp of the entry it overwrote.
UpdateOverwritesWitness ==
    /\ mpc = "get"
    /\ mSet.id \in DOMAIN mLocal
    /\ mLocal[mSet.id].Timestamp > mSet.now
    /\ mLocal[mSet.id].Score # mSet.score
    /\ mRet[mSet.id].Score = mSet.score
    /\ mAfterSet[mSet.id].Timestamp = mSet.now

(***************************************************************************)
(* Claims about one node's PlayerMap (StoreSpec).                          *)
(***************************************************************************)

\* C1, as claimed: the entry of each id carries the greatest timestamp among
\* all UpdatePlayerScore stamps and all merged entries ever applied for the
\* id, and a score that came with that timestamp.
StoredIsMaxEverApplied ==
    \A id \in PlayerIds :
        /\ id \in DOMAIN store <=> maxSeen[id] > 0
        /\ id \in DOMAIN store =>
              /\ store[id].Timestamp = maxSeen[id]
              /\ store[id].Score \in pairedSeen[id]

\* C1, amended: the entry of each id carries the greatest timestamp among
\* the stamp of the last UpdatePlayerScore of the id and the entries merged
\* for the id since that call (all merged entries when there was no such
\* call), and the score that came with that timestamp: the score of the
\* first entry applied with it.
StoredIsMaxSinceLastUpdate ==
    \A id \in PlayerIds :
        /\ id \in DOMAIN store <=> maxSince[id] > 0
        /\ id \in DOMAIN store =>
              /\ store[id].Timestamp = maxSince[id]
              /\ store[id].Score = firstSince[id]

\* C1 witness: an UpdatePlayerScore stamped alice behind a timestamp applied
\* before it, and a later merge raised alice again, still below the greatest
\* timestamp ever applied for it; bob holds the greatest timestamp ever
\* applied for it, which came with two scores.
StoredIsMaxSinceLastUpdateWitness ==
    /\ "alice" \in DOMAIN store
    /\ store["alice"].Timestamp = maxSince["alice"]
    /\ maxSince["alice"] < maxSeen["alice"]
    /\ store["alice"].Score \notin pairedSeen["alice"]
    /\ "bob" \in DOMAIN store
    /\ store["bob"].Timestamp = maxSeen["bob"]
    /\ Cardinality(pairedSeen["bob"]) > 1

====
